---- MODULE Spec2Model ----
(***************************************************************************)
(* EduSearch Pro (src/App.py): the quiz session, the search history log    *)
(* and the history filter of the Streamlit page script, as state machines. *)
(*                                                                         *)
(* Python strings are modelled as sequences of code points, so that        *)
(* indexing (user_answer[0]), strip(), lower() and the substring test `in` *)
(* are computed rather than assumed.  A subject and a question text are    *)
(* only ever compared for equality or truthiness and stay TLA+ strings.    *)
(***************************************************************************)
EXTENDS Integers, Sequences, FiniteSets, TLC

VARIABLES
    quiz_questions,     \* st.session_state.quiz_questions (a JSON value)
    current_question,   \* st.session_state.current_question
    user_answers,       \* st.session_state.user_answers
    quiz_completed,     \* st.session_state.quiz_completed
    has_current_topic,  \* hasattr(st.session_state, 'current_topic')
    topic_content,      \* st.session_state.topic_content
    search_history,     \* st.session_state.search_history
    notice,             \* the st.error / st.warning / st.success of the last run
    confirm_shown,      \* the last run rendered the 'Confirm Clear History' button
    clock,              \* datetime.now(), in whole seconds
    correct_count,      \* display_quiz_results: correct_count
    total_questions,    \* display_quiz_results: total_questions
    search_term,        \* study_history_page: the text input
    subject_filter,     \* study_history_page: the subject selectbox
    filtered_history,   \* study_history_page: filtered_history
    appended,           \* history: every entry appended so far, in order
    streak,             \* history: Next/Finish presses of this attempt; -1 after a Previous
    last                \* history: the widget that triggered the last run

vars == <<quiz_questions, current_question, user_answers, quiz_completed,
          has_current_topic, topic_content, search_history, notice,
          confirm_shown, clock, correct_count, total_questions, search_term,
          subject_filter, filtered_history, appended, streak, last>>

quizVars == <<quiz_questions, current_question, user_answers, quiz_completed>>

(***************************************************************************)
(* Bounds of the model and constants of the program.                       *)
(***************************************************************************)
MaxN == 3           \* longest question list the generator returns
MaxSearches == 12   \* successful topic searches in one behaviour
MaxHist == 3        \* longest history log the filter is applied to
HistoryCap == 10    \* save_search_history keeps the last 10 entries

(***************************************************************************)
(* Python strings: a str is the sequence of its code points (ord of each   *)
(* character), so "Calc" is <<67, 97, 108, 99>>.  The tables below are     *)
(* those of the Unicode database of the Python that runs the page script   *)
(* (Unicode 14.0), so str.strip() and str.lower() are computed for every   *)
(* string, not only for ASCII.                                             *)
(***************************************************************************)
\* The printable ASCII characters, in code point order from 32 (the double
\* quote, the backslash and the backtick by name).
Printable ==
    <<
       " ", "!", "quote", "#", "$", "%", "&", "'", "(", ")", "*", "+", ",", "-", ".", "/",
       "0", "1", "2", "3", "4", "5", "6", "7", "8", "9", ":", ";", "<", "=", ">", "?",
       "@", "A", "B", "C", "D", "E", "F", "G", "H", "I", "J", "K", "L", "M", "N", "O",
       "P", "Q", "R", "S", "T", "U", "V", "W", "X", "Y", "Z", "[", "backslash", "]", "^", "_",
       "backtick", "a", "b", "c", "d", "e", "f", "g", "h", "i", "j", "k", "l", "m", "n", "o",
       "p", "q", "r", "s", "t", "u", "v", "w", "x", "y", "z", "{", "|", "}", "~"
    >>

\* ord(ch) of a printable ASCII character
Ord(ch) == 31 + CHOOSE i \in 1..Len(Printable) : Printable[i] = ch

\* The str spelled by a tuple of printable ASCII characters
Py(chars) == [i \in 1..Len(chars) |-> Ord(chars[i])]

InRanges(c, ranges) == \E r \in ranges : r[1] <= c /\ c <= r[2]

\* Whitespace: the ranges of code points str.isspace() holds for.
WhiteSpaceRanges ==
    {<<9, 13>>, <<28, 32>>, <<133, 133>>, <<160, 160>>, <<5760, 5760>>, <<8192, 8202>>, <<8232, 8233>>, <<8239, 8239>>, <<8287, 8287>>, <<12288, 12288>>}

\* str.lower() of one code point, as runs <<first, last, step, offset>>:
\* every step-th code point from first to last lowers to itself + offset.
LowerRuns ==
    {
      <<65, 90, 1, 32>>, <<192, 214, 1, 32>>, <<216, 222, 1, 32>>, <<256, 302, 2, 1>>, <<306, 310, 2, 1>>,
      <<313, 327, 2, 1>>, <<330, 374, 2, 1>>, <<376, 376, 1, -121>>, <<377, 381, 2, 1>>, <<385, 385, 1, 210>>,
      <<386, 388, 2, 1>>, <<390, 390, 1, 206>>, <<391, 391, 1, 1>>, <<393, 394, 1, 205>>, <<395, 395, 1, 1>>,
      <<398, 398, 1, 79>>, <<399, 399, 1, 202>>, <<400, 400, 1, 203>>, <<401, 401, 1, 1>>, <<403, 403, 1, 205>>,
      <<404, 404, 1, 207>>, <<406, 406, 1, 211>>, <<407, 407, 1, 209>>, <<408, 408, 1, 1>>, <<412, 412, 1, 211>>,
      <<413, 413, 1, 213>>, <<415, 415, 1, 214>>, <<416, 420, 2, 1>>, <<422, 422, 1, 218>>, <<423, 423, 1, 1>>,
      <<425, 425, 1, 218>>, <<428, 428, 1, 1>>, <<430, 430, 1, 218>>, <<431, 431, 1, 1>>, <<433, 434, 1, 217>>,
      <<435, 437, 2, 1>>, <<439, 439, 1, 219>>, <<440, 440, 1, 1>>, <<444, 444, 1, 1>>, <<452, 452, 1, 2>>,
      <<453, 453, 1, 1>>, <<455, 455, 1, 2>>, <<456, 456, 1, 1>>, <<458, 458, 1, 2>>, <<459, 475, 2, 1>>,
      <<478, 494, 2, 1>>, <<497, 497, 1, 2>>, <<498, 500, 2, 1>>, <<502, 502, 1, -97>>, <<503, 503, 1, -56>>,
      <<504, 542, 2, 1>>, <<544, 544, 1, -130>>, <<546, 562, 2, 1>>, <<570, 570, 1, 10795>>, <<571, 571, 1, 1>>,
      <<573, 573, 1, -163>>, <<574, 574, 1, 10792>>, <<577, 577, 1, 1>>, <<579, 579, 1, -195>>, <<580, 580, 1, 69>>,
      <<581, 581, 1, 71>>, <<582, 590, 2, 1>>, <<880, 882, 2, 1>>, <<886, 886, 1, 1>>, <<895, 895, 1, 116>>,
      <<902, 902, 1, 38>>, <<904, 906, 1, 37>>, <<908, 908, 1, 64>>, <<910, 911, 1, 63>>, <<913, 929, 1, 32>>,
      <<931, 939, 1, 32>>, <<975, 975, 1, 8>>, <<984, 1006, 2, 1>>, <<1012, 1012, 1, -60>>, <<1015, 1015, 1, 1>>,
      <<1017, 1017, 1, -7>>, <<1018, 1018, 1, 1>>, <<1021, 1023, 1, -130>>, <<1024, 1039, 1, 80>>, <<1040, 1071, 1, 32>>,
      <<1120, 1152, 2, 1>>, <<1162, 1214, 2, 1>>, <<1216, 1216, 1, 15>>, <<1217, 1229, 2, 1>>, <<1232, 1326, 2, 1>>,
      <<1329, 1366, 1, 48>>, <<4256, 4293, 1, 7264>>, <<4295, 4295, 1, 7264>>, <<4301, 4301, 1, 7264>>, <<5024, 5103, 1, 38864>>,
      <<5104, 5109, 1, 8>>, <<7312, 7354, 1, -3008>>, <<7357, 7359, 1, -3008>>, <<7680, 7828, 2, 1>>, <<7838, 7838, 1, -7615>>,
      <<7840, 7934, 2, 1>>, <<7944, 7951, 1, -8>>, <<7960, 7965, 1, -8>>, <<7976, 7983, 1, -8>>, <<7992, 7999, 1, -8>>,
      <<8008, 8013, 1, -8>>, <<8025, 8031, 2, -8>>, <<8040, 8047, 1, -8>>, <<8072, 8079, 1, -8>>, <<8088, 8095, 1, -8>>,
      <<8104, 8111, 1, -8>>, <<8120, 8121, 1, -8>>, <<8122, 8123, 1, -74>>, <<8124, 8124, 1, -9>>, <<8136, 8139, 1, -86>>,
      <<8140, 8140, 1, -9>>, <<8152, 8153, 1, -8>>, <<8154, 8155, 1, -100>>, <<8168, 8169, 1, -8>>, <<8170, 8171, 1, -112>>,
      <<8172, 8172, 1, -7>>, <<8184, 8185, 1, -128>>, <<8186, 8187, 1, -126>>, <<8188, 8188, 1, -9>>, <<8486, 8486, 1, -7517>>,
      <<8490, 8490, 1, -8383>>, <<8491, 8491, 1, -8262>>, <<8498, 8498, 1, 28>>, <<8544, 8559, 1, 16>>, <<8579, 8579, 1, 1>>,
      <<9398, 9423, 1, 26>>, <<11264, 11311, 1, 48>>, <<11360, 11360, 1, 1>>, <<11362, 11362, 1, -10743>>, <<11363, 11363, 1, -3814>>,
      <<11364, 11364, 1, -10727>>, <<11367, 11371, 2, 1>>, <<11373, 11373, 1, -10780>>, <<11374, 11374, 1, -10749>>, <<11375, 11375, 1, -10783>>,
      <<11376, 11376, 1, -10782>>, <<11378, 11378, 1, 1>>, <<11381, 11381, 1, 1>>, <<11390, 11391, 1, -10815>>, <<11392, 11490, 2, 1>>,
      <<11499, 11501, 2, 1>>, <<11506, 11506, 1, 1>>, <<42560, 42604, 2, 1>>, <<42624, 42650, 2, 1>>, <<42786, 42798, 2, 1>>,
      <<42802, 42862, 2, 1>>, <<42873, 42875, 2, 1>>, <<42877, 42877, 1, -35332>>, <<42878, 42886, 2, 1>>, <<42891, 42891, 1, 1>>,
      <<42893, 42893, 1, -42280>>, <<42896, 42898, 2, 1>>, <<42902, 42920, 2, 1>>, <<42922, 42922, 1, -42308>>, <<42923, 42923, 1, -42319>>,
      <<42924, 42924, 1, -42315>>, <<42925, 42925, 1, -42305>>, <<42926, 42926, 1, -42308>>, <<42928, 42928, 1, -42258>>, <<42929, 42929, 1, -42282>>,
      <<42930, 42930, 1, -42261>>, <<42931, 42931, 1, 928>>, <<42932, 42946, 2, 1>>, <<42948, 42948, 1, -48>>, <<42949, 42949, 1, -42307>>,
      <<42950, 42950, 1, -35384>>, <<42951, 42953, 2, 1>>, <<42960, 42960, 1, 1>>, <<42966, 42968, 2, 1>>, <<42997, 42997, 1, 1>>,
      <<65313, 65338, 1, 32>>, <<66560, 66599, 1, 40>>, <<66736, 66771, 1, 40>>, <<66928, 66938, 1, 39>>, <<66940, 66954, 1, 39>>,
      <<66956, 66962, 1, 39>>, <<66964, 66965, 1, 39>>, <<68736, 68786, 1, 64>>, <<71840, 71871, 1, 32>>, <<93760, 93791, 1, 32>>,
      <<125184, 125217, 1, 34>>
    }

\* Ranges of the code points that are cased and not case-ignorable.
CasedRanges ==
    {
      <<65, 90>>, <<97, 122>>, <<170, 170>>, <<181, 181>>, <<186, 186>>, <<192, 214>>,
      <<216, 246>>, <<248, 442>>, <<444, 447>>, <<452, 659>>, <<661, 687>>, <<880, 883>>,
      <<886, 887>>, <<891, 893>>, <<895, 895>>, <<902, 902>>, <<904, 906>>, <<908, 908>>,
      <<910, 929>>, <<931, 1013>>, <<1015, 1153>>, <<1162, 1327>>, <<1329, 1366>>, <<1376, 1416>>,
      <<4256, 4293>>, <<4295, 4295>>, <<4301, 4301>>, <<4304, 4346>>, <<4349, 4351>>, <<5024, 5109>>,
      <<5112, 5117>>, <<7296, 7304>>, <<7312, 7354>>, <<7357, 7359>>, <<7424, 7467>>, <<7531, 7543>>,
      <<7545, 7578>>, <<7680, 7957>>, <<7960, 7965>>, <<7968, 8005>>, <<8008, 8013>>, <<8016, 8023>>,
      <<8025, 8025>>, <<8027, 8027>>, <<8029, 8029>>, <<8031, 8061>>, <<8064, 8116>>, <<8118, 8124>>,
      <<8126, 8126>>, <<8130, 8132>>, <<8134, 8140>>, <<8144, 8147>>, <<8150, 8155>>, <<8160, 8172>>,
      <<8178, 8180>>, <<8182, 8188>>, <<8450, 8450>>, <<8455, 8455>>, <<8458, 8467>>, <<8469, 8469>>,
      <<8473, 8477>>, <<8484, 8484>>, <<8486, 8486>>, <<8488, 8488>>, <<8490, 8493>>, <<8495, 8500>>,
      <<8505, 8505>>, <<8508, 8511>>, <<8517, 8521>>, <<8526, 8526>>, <<8544, 8575>>, <<8579, 8580>>,
      <<9398, 9449>>, <<11264, 11387>>, <<11390, 11492>>, <<11499, 11502>>, <<11506, 11507>>, <<11520, 11557>>,
      <<11559, 11559>>, <<11565, 11565>>, <<42560, 42605>>, <<42624, 42651>>, <<42786, 42863>>, <<42865, 42887>>,
      <<42891, 42894>>, <<42896, 42954>>, <<42960, 42961>>, <<42963, 42963>>, <<42965, 42969>>, <<42997, 42998>>,
      <<43002, 43002>>, <<43824, 43866>>, <<43872, 43880>>, <<43888, 43967>>, <<64256, 64262>>, <<64275, 64279>>,
      <<65313, 65338>>, <<65345, 65370>>, <<66560, 66639>>, <<66736, 66771>>, <<66776, 66811>>, <<66928, 66938>>,
      <<66940, 66954>>, <<66956, 66962>>, <<66964, 66965>>, <<66967, 66977>>, <<66979, 66993>>, <<66995, 67001>>,
      <<67003, 67004>>, <<68736, 68786>>, <<68800, 68850>>, <<71840, 71903>>, <<93760, 93823>>, <<119808, 119892>>,
      <<119894, 119964>>, <<119966, 119967>>, <<119970, 119970>>, <<119973, 119974>>, <<119977, 119980>>, <<119982, 119993>>,
      <<119995, 119995>>, <<119997, 120003>>, <<120005, 120069>>, <<120071, 120074>>, <<120077, 120084>>, <<120086, 120092>>,
      <<120094, 120121>>, <<120123, 120126>>, <<120128, 120132>>, <<120134, 120134>>, <<120138, 120144>>, <<120146, 120485>>,
      <<120488, 120512>>, <<120514, 120538>>, <<120540, 120570>>, <<120572, 120596>>, <<120598, 120628>>, <<120630, 120654>>,
      <<120656, 120686>>, <<120688, 120712>>, <<120714, 120744>>, <<120746, 120770>>, <<120772, 120779>>, <<122624, 122633>>,
      <<122635, 122654>>, <<125184, 125251>>, <<127280, 127305>>, <<127312, 127337>>, <<127344, 127369>>
    }

\* Ranges of the case-ignorable code points.
CaseIgnorableRanges ==
    {
      <<39, 39>>, <<46, 46>>, <<58, 58>>, <<94, 94>>, <<96, 96>>, <<168, 168>>,
      <<173, 173>>, <<175, 175>>, <<180, 180>>, <<183, 184>>, <<688, 879>>, <<884, 885>>,
      <<890, 890>>, <<900, 901>>, <<903, 903>>, <<1155, 1161>>, <<1369, 1369>>, <<1375, 1375>>,
      <<1425, 1469>>, <<1471, 1471>>, <<1473, 1474>>, <<1476, 1477>>, <<1479, 1479>>, <<1524, 1524>>,
      <<1536, 1541>>, <<1552, 1562>>, <<1564, 1564>>, <<1600, 1600>>, <<1611, 1631>>, <<1648, 1648>>,
      <<1750, 1757>>, <<1759, 1768>>, <<1770, 1773>>, <<1807, 1807>>, <<1809, 1809>>, <<1840, 1866>>,
      <<1958, 1968>>, <<2027, 2037>>, <<2042, 2042>>, <<2045, 2045>>, <<2070, 2093>>, <<2137, 2139>>,
      <<2184, 2184>>, <<2192, 2193>>, <<2200, 2207>>, <<2249, 2306>>, <<2362, 2362>>, <<2364, 2364>>,
      <<2369, 2376>>, <<2381, 2381>>, <<2385, 2391>>, <<2402, 2403>>, <<2417, 2417>>, <<2433, 2433>>,
      <<2492, 2492>>, <<2497, 2500>>, <<2509, 2509>>, <<2530, 2531>>, <<2558, 2558>>, <<2561, 2562>>,
      <<2620, 2620>>, <<2625, 2626>>, <<2631, 2632>>, <<2635, 2637>>, <<2641, 2641>>, <<2672, 2673>>,
      <<2677, 2677>>, <<2689, 2690>>, <<2748, 2748>>, <<2753, 2757>>, <<2759, 2760>>, <<2765, 2765>>,
      <<2786, 2787>>, <<2810, 2815>>, <<2817, 2817>>, <<2876, 2876>>, <<2879, 2879>>, <<2881, 2884>>,
      <<2893, 2893>>, <<2901, 2902>>, <<2914, 2915>>, <<2946, 2946>>, <<3008, 3008>>, <<3021, 3021>>,
      <<3072, 3072>>, <<3076, 3076>>, <<3132, 3132>>, <<3134, 3136>>, <<3142, 3144>>, <<3146, 3149>>,
      <<3157, 3158>>, <<3170, 3171>>, <<3201, 3201>>, <<3260, 3260>>, <<3263, 3263>>, <<3270, 3270>>,
      <<3276, 3277>>, <<3298, 3299>>, <<3328, 3329>>, <<3387, 3388>>, <<3393, 3396>>, <<3405, 3405>>,
      <<3426, 3427>>, <<3457, 3457>>, <<3530, 3530>>, <<3538, 3540>>, <<3542, 3542>>, <<3633, 3633>>,
      <<3636, 3642>>, <<3654, 3662>>, <<3761, 3761>>, <<3764, 3772>>, <<3782, 3782>>, <<3784, 3789>>,
      <<3864, 3865>>, <<3893, 3893>>, <<3895, 3895>>, <<3897, 3897>>, <<3953, 3966>>, <<3968, 3972>>,
      <<3974, 3975>>, <<3981, 3991>>, <<3993, 4028>>, <<4038, 4038>>, <<4141, 4144>>, <<4146, 4151>>,
      <<4153, 4154>>, <<4157, 4158>>, <<4184, 4185>>, <<4190, 4192>>, <<4209, 4212>>, <<4226, 4226>>,
      <<4229, 4230>>, <<4237, 4237>>, <<4253, 4253>>, <<4348, 4348>>, <<4957, 4959>>, <<5906, 5908>>,
      <<5938, 5939>>, <<5970, 5971>>, <<6002, 6003>>, <<6068, 6069>>, <<6071, 6077>>, <<6086, 6086>>,
      <<6089, 6099>>, <<6103, 6103>>, <<6109, 6109>>, <<6155, 6159>>, <<6211, 6211>>, <<6277, 6278>>,
      <<6313, 6313>>, <<6432, 6434>>, <<6439, 6440>>, <<6450, 6450>>, <<6457, 6459>>, <<6679, 6680>>,
      <<6683, 6683>>, <<6742, 6742>>, <<6744, 6750>>, <<6752, 6752>>, <<6754, 6754>>, <<6757, 6764>>,
      <<6771, 6780>>, <<6783, 6783>>, <<6823, 6823>>, <<6832, 6862>>, <<6912, 6915>>, <<6964, 6964>>,
      <<6966, 6970>>, <<6972, 6972>>, <<6978, 6978>>, <<7019, 7027>>, <<7040, 7041>>, <<7074, 7077>>,
      <<7080, 7081>>, <<7083, 7085>>, <<7142, 7142>>, <<7144, 7145>>, <<7149, 7149>>, <<7151, 7153>>,
      <<7212, 7219>>, <<7222, 7223>>, <<7288, 7293>>, <<7376, 7378>>, <<7380, 7392>>, <<7394, 7400>>,
      <<7405, 7405>>, <<7412, 7412>>, <<7416, 7417>>, <<7468, 7530>>, <<7544, 7544>>, <<7579, 7679>>,
      <<8125, 8125>>, <<8127, 8129>>, <<8141, 8143>>, <<8157, 8159>>, <<8173, 8175>>, <<8189, 8190>>,
      <<8203, 8207>>, <<8216, 8217>>, <<8228, 8228>>, <<8231, 8231>>, <<8234, 8238>>, <<8288, 8292>>,
      <<8294, 8303>>, <<8305, 8305>>, <<8319, 8319>>, <<8336, 8348>>, <<8400, 8432>>, <<11388, 11389>>,
      <<11503, 11505>>, <<11631, 11631>>, <<11647, 11647>>, <<11744, 11775>>, <<11823, 11823>>, <<12293, 12293>>,
      <<12330, 12333>>, <<12337, 12341>>, <<12347, 12347>>, <<12441, 12446>>, <<12540, 12542>>, <<40981, 40981>>,
      <<42232, 42237>>, <<42508, 42508>>, <<42607, 42610>>, <<42612, 42621>>, <<42623, 42623>>, <<42652, 42655>>,
      <<42736, 42737>>, <<42752, 42785>>, <<42864, 42864>>, <<42888, 42890>>, <<42994, 42996>>, <<43000, 43001>>,
      <<43010, 43010>>, <<43014, 43014>>, <<43019, 43019>>, <<43045, 43046>>, <<43052, 43052>>, <<43204, 43205>>,
      <<43232, 43249>>, <<43263, 43263>>, <<43302, 43309>>, <<43335, 43345>>, <<43392, 43394>>, <<43443, 43443>>,
      <<43446, 43449>>, <<43452, 43453>>, <<43471, 43471>>, <<43493, 43494>>, <<43561, 43566>>, <<43569, 43570>>,
      <<43573, 43574>>, <<43587, 43587>>, <<43596, 43596>>, <<43632, 43632>>, <<43644, 43644>>, <<43696, 43696>>,
      <<43698, 43700>>, <<43703, 43704>>, <<43710, 43711>>, <<43713, 43713>>, <<43741, 43741>>, <<43756, 43757>>,
      <<43763, 43764>>, <<43766, 43766>>, <<43867, 43871>>, <<43881, 43883>>, <<44005, 44005>>, <<44008, 44008>>,
      <<44013, 44013>>, <<64286, 64286>>, <<64434, 64450>>, <<65024, 65039>>, <<65043, 65043>>, <<65056, 65071>>,
      <<65106, 65106>>, <<65109, 65109>>, <<65279, 65279>>, <<65287, 65287>>, <<65294, 65294>>, <<65306, 65306>>,
      <<65342, 65342>>, <<65344, 65344>>, <<65392, 65392>>, <<65438, 65439>>, <<65507, 65507>>, <<65529, 65531>>,
      <<66045, 66045>>, <<66272, 66272>>, <<66422, 66426>>, <<67456, 67461>>, <<67463, 67504>>, <<67506, 67514>>,
      <<68097, 68099>>, <<68101, 68102>>, <<68108, 68111>>, <<68152, 68154>>, <<68159, 68159>>, <<68325, 68326>>,
      <<68900, 68903>>, <<69291, 69292>>, <<69446, 69456>>, <<69506, 69509>>, <<69633, 69633>>, <<69688, 69702>>,
      <<69744, 69744>>, <<69747, 69748>>, <<69759, 69761>>, <<69811, 69814>>, <<69817, 69818>>, <<69821, 69821>>,
      <<69826, 69826>>, <<69837, 69837>>, <<69888, 69890>>, <<69927, 69931>>, <<69933, 69940>>, <<70003, 70003>>,
      <<70016, 70017>>, <<70070, 70078>>, <<70089, 70092>>, <<70095, 70095>>, <<70191, 70193>>, <<70196, 70196>>,
      <<70198, 70199>>, <<70206, 70206>>, <<70367, 70367>>, <<70371, 70378>>, <<70400, 70401>>, <<70459, 70460>>,
      <<70464, 70464>>, <<70502, 70508>>, <<70512, 70516>>, <<70712, 70719>>, <<70722, 70724>>, <<70726, 70726>>,
      <<70750, 70750>>, <<70835, 70840>>, <<70842, 70842>>, <<70847, 70848>>, <<70850, 70851>>, <<71090, 71093>>,
      <<71100, 71101>>, <<71103, 71104>>, <<71132, 71133>>, <<71219, 71226>>, <<71229, 71229>>, <<71231, 71232>>,
      <<71339, 71339>>, <<71341, 71341>>, <<71344, 71349>>, <<71351, 71351>>, <<71453, 71455>>, <<71458, 71461>>,
      <<71463, 71467>>, <<71727, 71735>>, <<71737, 71738>>, <<71995, 71996>>, <<71998, 71998>>, <<72003, 72003>>,
      <<72148, 72151>>, <<72154, 72155>>, <<72160, 72160>>, <<72193, 72202>>, <<72243, 72248>>, <<72251, 72254>>,
      <<72263, 72263>>, <<72273, 72278>>, <<72281, 72283>>, <<72330, 72342>>, <<72344, 72345>>, <<72752, 72758>>,
      <<72760, 72765>>, <<72767, 72767>>, <<72850, 72871>>, <<72874, 72880>>, <<72882, 72883>>, <<72885, 72886>>,
      <<73009, 73014>>, <<73018, 73018>>, <<73020, 73021>>, <<73023, 73029>>, <<73031, 73031>>, <<73104, 73105>>,
      <<73109, 73109>>, <<73111, 73111>>, <<73459, 73460>>, <<78896, 78904>>, <<92912, 92916>>, <<92976, 92982>>,
      <<92992, 92995>>, <<94031, 94031>>, <<94095, 94111>>, <<94176, 94177>>, <<94179, 94180>>, <<110576, 110579>>,
      <<110581, 110587>>, <<110589, 110590>>, <<113821, 113822>>, <<113824, 113827>>, <<118528, 118573>>, <<118576, 118598>>,
      <<119143, 119145>>, <<119155, 119170>>, <<119173, 119179>>, <<119210, 119213>>, <<119362, 119364>>, <<121344, 121398>>,
      <<121403, 121452>>, <<121461, 121461>>, <<121476, 121476>>, <<121499, 121503>>, <<121505, 121519>>, <<122880, 122886>>,
      <<122888, 122904>>, <<122907, 122913>>, <<122915, 122916>>, <<122918, 122922>>, <<123184, 123197>>, <<123566, 123566>>,
      <<123628, 123631>>, <<125136, 125142>>, <<125252, 125259>>, <<127995, 127999>>, <<917505, 917505>>, <<917536, 917631>>,
      <<917760, 917999>>
    }

\* str.lower() of a one-character string; only U+0130 lowers to two code
\* points.  (U+03A3 is lowered by Lower, which knows its context.)
LowerChar(c) ==
    IF c = 304 THEN <<105, 775>>
    ELSE LET hits == {r \in LowerRuns :
                        r[1] <= c /\ c <= r[2] /\ (c - r[1]) % r[3] = 0}
         IN  IF hits = {} THEN <<c>>
             ELSE <<c + (CHOOSE r \in hits : TRUE)[4]>>

\* The nearest code point of s that is not case-ignorable, going from
\* position i towards the start (dir = -1) or the end (dir = 1), is cased.
RECURSIVE CasedNeighbour(_, _, _)
CasedNeighbour(s, i, dir) ==
    LET j == i + dir IN
    IF j < 1 \/ j > Len(s) THEN FALSE
    ELSE IF InRanges(s[j], CaseIgnorableRanges) THEN CasedNeighbour(s, j, dir)
    ELSE InRanges(s[j], CasedRanges)

\* The capital sigma at position i ends a word: it lowers to the final
\* sigma U+03C2 instead of U+03C3.
FinalSigma(s, i) == CasedNeighbour(s, i, -1) /\ ~CasedNeighbour(s, i, 1)

RECURSIVE LowerFrom(_, _)
LowerFrom(s, i) ==
    IF i > Len(s) THEN <<>>
    ELSE (IF s[i] = 931
          THEN (IF FinalSigma(s, i) THEN <<962>> ELSE <<963>>)
          ELSE LowerChar(s[i])) \o LowerFrom(s, i + 1)

\* str.lower()
Lower(s) == LowerFrom(s, 1)

\* `needle in hay` for two strings
Contains(needle, hay) ==
    \E k \in 0..(Len(hay) - Len(needle)) :
        SubSeq(hay, k + 1, k + Len(needle)) = needle

\* c.isspace()
IsSpace(c) == InRanges(c, WhiteSpaceRanges)

RECURSIVE LStrip(_)
LStrip(s) == IF s # <<>> /\ IsSpace(Head(s)) THEN LStrip(Tail(s)) ELSE s

RECURSIVE RStrip(_)
RStrip(s) == IF s # <<>> /\ IsSpace(s[Len(s)])
             THEN RStrip(SubSeq(s, 1, Len(s) - 1)) ELSE s

\* str.strip()
Strip(s) == RStrip(LStrip(s))

(***************************************************************************)
(* JSON values, as json.loads returns them, and Python truthiness.         *)
(* `items` are the elements of a list; `size` is the number of keys of an  *)
(* object, the number of characters of a string, or the value of a number. *)
(***************************************************************************)
JList(s) == [type |-> "list", items |-> s, size |-> Len(s)]
JDict(n) == [type |-> "dict", items |-> <<>>, size |-> n]
JStr(n)  == [type |-> "str",  items |-> <<>>, size |-> n]
JNum(n)  == [type |-> "num",  items |-> <<>>, size |-> n]
None     == [type |-> "null", items |-> <<>>, size |-> 0]

\* bool(v)
Truthy(v) == IF v.type = "null" THEN FALSE ELSE v.size # 0

\* All sequences over S of length lo..hi
SeqsOf(S, lo, hi) == UNION {[1..n -> S] : n \in lo..hi}

(***************************************************************************)
(* Question records in the form the prompt of generate_quiz asks for.      *)
(***************************************************************************)
Labels == {"A", "B", "C", "D"}

FourOptions == << Py(<<"A", ")", " ", "w">>), Py(<<"B", ")", " ", "x">>),
                 Py(<<"C", ")", " ", "y">>), Py(<<"D", ")", " ", "z">>) >>

Question(label) ==
    [question |-> "Q", options |-> FourOptions,
     correct_answer |-> Py(<<label>>), explanation |-> "E"]

\* The question lists the generator returns here: every length up to MaxN,
\* with correct answers alternating from either letter.
Alternating(first, n) ==
    [i \in 1..n |-> IF (i % 2 = 1) = (first = "A")
                    THEN Question("A") ELSE Question("C")]

QuizLists == {Alternating(first, n) : first \in {"A", "C"}, n \in 0..MaxN}

\* What the Quiz Generator can produce: the API call raises, the reply is
\* not JSON, or the reply is some JSON value (a list of question records,
\* an object, a string, a number, null).
GeneratorOutcomes ==
    {[kind |-> "api_error", value |-> None],
     [kind |-> "not_json",  value |-> None]}
    \cup {[kind |-> "json", value |-> v] :
            v \in {JList(s) : s \in QuizLists}
                  \cup {JDict(0), JDict(1), JStr(5), JNum(7), None}}

\* The expected structured form: a sequence of question records.
IsQuestionList(v) == v.type = "list"

\* generate_quiz: the value returned and whether st.error was called.
generate_quiz(outcome) ==
    IF outcome.kind \in {"api_error", "not_json"}
    THEN [value |-> None, error |-> TRUE]
    ELSE [value |-> outcome.value, error |-> FALSE]

\* The topics typed: one of whitespace only (space, carriage return,
\* no-break space) and one with text.
Topics == { <<32, 13, 160>>, Py(<<"C", "a", "l", "c">>) }

NoChoice == <<>>

\* Records the widget that triggered this run, the letter it recorded (if
\* any) and the widget of the run before.
Did(op, choice) == last' = [op |-> op, choice |-> choice, prev |-> last.op]

(***************************************************************************)
(* quiz_generator_page                                                     *)
(***************************************************************************)
historyFrame == <<search_history, topic_content, clock, appended>>
scoreFrame   == <<correct_count, total_questions>>
filterFrame  == <<search_term, subject_filter, filtered_history>>

\* The session fields a successful generation sets (lines 309-312).
StartQuiz(questions) ==
    /\ quiz_questions' = questions
    /\ current_question' = 0
    /\ user_answers' = <<>>
    /\ quiz_completed' = FALSE

\* The 'Generate Quiz' button of the quiz page.
PressGenerateQuiz(topic, outcome) ==
    /\ ~has_current_topic
    /\ IF Strip(topic) # <<>>
       THEN LET r == generate_quiz(outcome) IN
            IF Truthy(r.value)
            THEN /\ StartQuiz(r.value)
                 /\ notice' = "success"
                 /\ streak' = 0
            ELSE /\ UNCHANGED quizVars
                 /\ notice' = IF r.error THEN "error" ELSE "none"
                 /\ UNCHANGED streak
       ELSE /\ UNCHANGED quizVars
            /\ notice' = "warning"
            /\ UNCHANGED streak
    /\ Did("generate", NoChoice)
    /\ confirm_shown' = FALSE
    /\ UNCHANGED <<has_current_topic, historyFrame, scoreFrame, filterFrame>>

\* Line 319: display_quiz is called.
ShowsQuiz == Truthy(quiz_questions) /\ ~quiz_completed

\* display_quiz reaches its buttons: the questions are a list it can index
\* (anything else raises in len() or in questions[current_q]) and line 328.
QuizRenders ==
    /\ ShowsQuiz
    /\ IsQuestionList(quiz_questions)
    /\ current_question < Len(quiz_questions.items)

\* Line 321: display_quiz_results is called, and reaches its buttons
\* (line 378 divides by the number of questions).
ResultsRender ==
    /\ ~ShowsQuiz
    /\ quiz_completed
    /\ IsQuestionList(quiz_questions)
    /\ Len(quiz_questions.items) # 0

\* user_answer[0]: the first character of the selected option
FirstChar(option) == <<option[1]>>

\* Mutant of SaveAnswer: every press appends.
SaveAnswer_AlwaysAppend(answers, current_q, letter) == Append(answers, letter)

\* Mutant of SaveAnswer: an answer is only ever replaced, never added.
SaveAnswer_OverwriteOnly(answers, current_q, letter) ==
    IF Len(answers) <= current_q
    THEN answers
    ELSE [answers EXCEPT ![current_q + 1] = letter]

\* Lines 358-361: "Save answer"
SaveAnswer(answers, current_q, letter) ==
    IF Len(answers) <= current_q
    THEN Append(answers, letter)
    ELSE [answers EXCEPT ![current_q + 1] = letter]

\* Mutant of HasNextQuestion: compares with the length, not the last index.
HasNextQuestion_Late(current_q, questions) == current_q < Len(questions)

\* Line 363 (and the label of the button, line 356)
HasNextQuestion(current_q, questions) == current_q < Len(questions) - 1

\* Mutant of PreviousFields: going back forgets the answer of the question
\* gone back to.
PreviousFields_DropsAnswer ==
    /\ current_question' = current_question - 1
    /\ user_answers' = SubSeq(user_answers, 1, current_question - 1)
    /\ UNCHANGED <<quiz_questions, quiz_completed>>

\* Line 352
PreviousFields ==
    /\ current_question' = current_question - 1
    /\ UNCHANGED <<quiz_questions, user_answers, quiz_completed>>

\* The 'Previous' button (lines 350-353)
PressPrevious ==
    /\ QuizRenders
    /\ current_question > 0
    /\ PreviousFields
    /\ streak' = -1
    /\ notice' = "none"
    /\ Did("previous", NoChoice)
    /\ confirm_shown' = FALSE
    /\ UNCHANGED <<has_current_topic, historyFrame, scoreFrame, filterFrame>>

\* The 'Next' / 'Finish Quiz' button (lines 356-368); `selected` is the
\* index of the radio option selected when it is pressed.
PressNextOrFinish(selected) ==
    /\ QuizRenders
    /\ LET questions == quiz_questions.items
           current_q == current_question
           user_answer == questions[current_q + 1].options[selected]
       IN  /\ user_answers' = SaveAnswer(user_answers, current_q, FirstChar(user_answer))
           /\ IF HasNextQuestion(current_q, questions)
              THEN /\ current_question' = current_question + 1
                   /\ UNCHANGED quiz_completed
                   /\ Did("next", FirstChar(user_answer))
              ELSE /\ quiz_completed' = TRUE
                   /\ UNCHANGED current_question
                   /\ Did("finish", FirstChar(user_answer))
    /\ streak' = IF streak >= 0 THEN streak + 1 ELSE streak
    /\ notice' = "none"
    /\ confirm_shown' = FALSE
    /\ UNCHANGED <<quiz_questions, has_current_topic,
                   historyFrame, scoreFrame, filterFrame>>

\* Mutant of RetakeFields: the answers of the last attempt are kept.
RetakeFields_KeepsAnswers ==
    /\ current_question' = 0
    /\ quiz_completed' = FALSE
    /\ UNCHANGED <<quiz_questions, user_answers>>

\* Lines 425-427
RetakeFields ==
    /\ current_question' = 0
    /\ user_answers' = <<>>
    /\ quiz_completed' = FALSE
    /\ UNCHANGED quiz_questions

\* The 'Retake Quiz' button
PressRetake ==
    /\ ResultsRender
    /\ RetakeFields
    /\ streak' = 0
    /\ notice' = "none"
    /\ Did("retake", NoChoice)
    /\ confirm_shown' = FALSE
    /\ UNCHANGED <<has_current_topic, historyFrame, scoreFrame, filterFrame>>

\* Mutant of NewQuizFields: the completed flag is not reset.
NewQuizFields_KeepsCompleted ==
    /\ quiz_questions' = JList(<<>>)
    /\ current_question' = 0
    /\ user_answers' = <<>>
    /\ UNCHANGED quiz_completed
    /\ has_current_topic' = FALSE

\* Lines 432-437
NewQuizFields ==
    /\ quiz_questions' = JList(<<>>)
    /\ current_question' = 0
    /\ user_answers' = <<>>
    /\ quiz_completed' = FALSE
    /\ has_current_topic' = FALSE

\* The 'New Quiz' button (lines 431-438)
PressNewQuiz ==
    /\ ResultsRender
    /\ NewQuizFields
    /\ streak' = 0
    /\ notice' = "none"
    /\ Did("new_quiz", NoChoice)
    /\ confirm_shown' = FALSE
    /\ UNCHANGED <<historyFrame, scoreFrame, filterFrame>>

\* The 'Study Again' button of a history entry (lines 542-546): sets
\* current_topic before st.switch_page.
PressStudyAgain ==
    /\ search_history # <<>>
    /\ has_current_topic' = TRUE
    /\ notice' = "none"
    /\ Did("study_again", NoChoice)
    /\ confirm_shown' = FALSE
    /\ UNCHANGED <<quizVars, historyFrame, streak, scoreFrame, filterFrame>>

(***************************************************************************)
(* The state after initialize_session_state (lines 75-87).                 *)
(***************************************************************************)
HistoryEntry(topic, subject, timestamp) ==
    [topic |-> topic, subject |-> subject, timestamp |-> timestamp]

InitSession ==
    /\ quiz_questions = JList(<<>>)
    /\ current_question = 0
    /\ user_answers = <<>>
    /\ quiz_completed = FALSE
    /\ has_current_topic = FALSE
    /\ topic_content = ""
    /\ search_history = <<>>
    /\ notice = "none"
    /\ confirm_shown = FALSE
    /\ clock = 0
    /\ correct_count = 0
    /\ total_questions = 0
    /\ search_term = <<>>
    /\ subject_filter = "All"
    /\ filtered_history = <<>>
    /\ appended = <<>>
    /\ streak = 0
    /\ last = [op |-> "init", choice |-> NoChoice, prev |-> "init"]

Init == InitSession

(***************************************************************************)
(* The quiz session: the quiz page, and the history entry button that      *)
(* hides its form.  The session starts with one past search, so that the   *)
(* button is there; with no past search the same holds without it.         *)
(***************************************************************************)
OnePastSearch == <<HistoryEntry(Py(<<"C", "a", "l", "c">>), "General", 1)>>

InitQuiz ==
    /\ quiz_questions = JList(<<>>)
    /\ current_question = 0
    /\ user_answers = <<>>
    /\ quiz_completed = FALSE
    /\ has_current_topic = FALSE
    /\ topic_content = "content"
    /\ search_history = OnePastSearch
    /\ notice = "none"
    /\ confirm_shown = FALSE
    /\ clock = Len(search_history)
    /\ correct_count = 0
    /\ total_questions = 0
    /\ search_term = <<>>
    /\ subject_filter = "All"
    /\ filtered_history = <<>>
    /\ appended = search_history
    /\ streak = 0
    /\ last = [op |-> "init", choice |-> NoChoice, prev |-> "init"]

NextQuiz ==
    \/ \E topic \in Topics, outcome \in GeneratorOutcomes :
            PressGenerateQuiz(topic, outcome)
    \/ PressPrevious
    \/ \E selected \in 1..4 : PressNextOrFinish(selected)
    \/ PressRetake
    \/ PressNewQuiz
    \/ PressStudyAgain

SpecQuiz == InitQuiz /\ [][NextQuiz]_vars

(***************************************************************************)
(* topic_explorer_page and the history log.                                *)
(***************************************************************************)
\* list[-n:]
LastN(list, n) == SubSeq(list, Len(list) - n + 1, Len(list))

\* Mutant of save_search_history: the truncation keeps the first ten.
save_search_history_KeepsFirst(history, topic, subject, timestamp) ==
    LET search_entry ==
            HistoryEntry(topic, IF subject # "" THEN subject ELSE "General", timestamp)
        grown == Append(history, search_entry)
    IN  IF Len(grown) > HistoryCap THEN SubSeq(grown, 1, HistoryCap) ELSE grown

\* save_search_history: the new value of st.session_state.search_history
save_search_history(history, topic, subject, timestamp) ==
    LET search_entry ==
            HistoryEntry(topic, IF subject # "" THEN subject ELSE "General", timestamp)
        grown == Append(history, search_entry)
    IN  IF Len(grown) > HistoryCap THEN LastN(grown, HistoryCap) ELSE grown

\* What search_topic_info can return: None after an API error (st.error),
\* or the content of the reply, which may be the empty string.
ContentOutcomes ==
    {[content |-> "", error |-> TRUE],
     [content |-> "", error |-> FALSE],
     [content |-> "content", error |-> FALSE]}

Subjects == {"", "Mathematics"}

\* The 'Search Topic' button (lines 238-276)
PressSearchTopic(topic, subject, outcome) ==
    /\ clock < MaxSearches
    /\ IF Strip(topic) # <<>>
       THEN IF outcome.content # ""
            THEN /\ topic_content' = outcome.content
                 /\ clock' = clock + 1
                 /\ search_history' =
                        save_search_history(search_history, topic, subject, clock')
                 /\ appended' =
                        Append(appended, HistoryEntry(topic,
                            IF subject # "" THEN subject ELSE "General", clock'))
                 /\ notice' = "success"
            ELSE /\ notice' = IF outcome.error THEN "error" ELSE "none"
                 /\ UNCHANGED <<topic_content, clock, search_history, appended>>
       ELSE /\ notice' = "warning"
            /\ UNCHANGED <<topic_content, clock, search_history, appended>>
    /\ Did("search", NoChoice)
    /\ confirm_shown' = FALSE
    /\ UNCHANGED <<quizVars, has_current_topic, streak, scoreFrame, filterFrame>>

(***************************************************************************)
(* study_history_page: the clear-history block (lines 550-557).  A run of  *)
(* the page script is triggered by one widget; st.button returns True only *)
(* for the button whose press triggered this run.                          *)
(***************************************************************************)
Button(label, clicked) == clicked = label

\* Line 553: the outer button
ClearAllPressed(clicked) == Button("clear_all", clicked)

\* Line 554: the inner button is created, and can only return True, inside
\* the branch of the outer one.
ConfirmPressed(clicked) == ClearAllPressed(clicked) /\ Button("confirm", clicked)

\* One run of study_history_page triggered by `clicked`.
HistoryPageRun(clicked) ==
    /\ search_history # <<>>
    /\ IF ConfirmPressed(clicked)
       THEN /\ search_history' = <<>>
            /\ appended' = <<>>
            /\ notice' = "success"
       ELSE /\ UNCHANGED <<search_history, appended>>
            /\ notice' = "none"
    /\ confirm_shown' = ClearAllPressed(clicked)
    /\ Did(clicked, NoChoice)
    /\ UNCHANGED <<quizVars, has_current_topic, topic_content, clock, streak,
                   scoreFrame, filterFrame>>

\* The 'Clear All History' button
PressClearAllHistory == HistoryPageRun("clear_all")

\* The 'Confirm Clear History' button, when the last run rendered it
PressConfirmClearHistory == confirm_shown /\ HistoryPageRun("confirm")

NextHistory ==
    \/ \E topic \in Topics, subject \in Subjects, outcome \in ContentOutcomes :
            PressSearchTopic(topic, subject, outcome)
    \/ PressClearAllHistory
    \/ PressConfirmClearHistory

SpecHistory == InitSession /\ [][NextHistory]_vars

(***************************************************************************)
(* study_history_page: the filter (lines 521-528), applied to a history    *)
(* log, a search term and a subject selection drawn from bounded sets.     *)
(***************************************************************************)
FilterHistory(history, term, subject) ==
    LET by_term == IF term # <<>>
                   THEN SelectSeq(history,
                            LAMBDA h : Contains(Lower(term), Lower(h.topic)))
                   ELSE history
    IN  IF subject # "All"
        THEN SelectSeq(by_term, LAMBDA h : h.subject = subject)
        ELSE by_term

Calculus == Py(<<"C", "a", "l", "c", "u", "l", "u", "s">>)
Calcium  == Py(<<"C", "a", "l", "c", "i", "u", "m">>)
History  == Py(<<"H", "i", "s", "t", "o", "r", "y">>)
Ecole    == <<201>> \o Py(<<"c", "o", "l", "e">>)   \* U+00C9 c o l e
Odos     == <<927, 916, 927, 931>>                  \* U+039F U+0394 U+039F U+03A3

PastSearches ==
    {[topic |-> Calculus, subject |-> "Mathematics"],
     [topic |-> Calcium,  subject |-> "Chemistry"],
     [topic |-> History,  subject |-> "History"],
     [topic |-> Ecole,    subject |-> "General"],
     [topic |-> Odos,     subject |-> "General"]}

SearchTerms ==
    { <<>>, Py(<<"c", "a", "l", "c">>), Py(<<"C", "A", "L">>),
      Py(<<"s", "t", "o", "r", "y">>), Py(<<"l", "c", "u">>),
      <<233>> \o Py(<<"c", "o", "l", "e">>),      \* U+00E9 c o l e
      <<931>> }                                   \* U+03A3

\* The history logs the filter is applied to: up to MaxHist past searches,
\* stamped in the order they were appended.
HistoryLogs ==
    {[i \in 1..Len(s) |-> HistoryEntry(s[i].topic, s[i].subject, i)] :
        s \in SeqsOf(PastSearches, 0, MaxHist)}

\* The options of the subject selectbox (lines 518-519)
SubjectOptions(history) == {"All"} \cup {history[i].subject : i \in 1..Len(history)}

InitFilter ==
    /\ quiz_questions = JList(<<>>)
    /\ current_question = 0
    /\ user_answers = <<>>
    /\ quiz_completed = FALSE
    /\ has_current_topic = FALSE
    /\ search_history \in HistoryLogs
    /\ topic_content = IF search_history = <<>> THEN "" ELSE "content"
    /\ notice = "none"
    /\ confirm_shown = FALSE
    /\ clock = Len(search_history)
    /\ correct_count = 0
    /\ total_questions = 0
    /\ search_term \in SearchTerms
    /\ subject_filter \in SubjectOptions(search_history)
    /\ filtered_history = <<>>
    /\ appended = search_history
    /\ streak = 0
    /\ last = [op |-> "init", choice |-> NoChoice, prev |-> "init"]

\* A run of study_history_page up to line 528
ApplyFilter ==
    /\ last.op = "init"
    /\ search_history # <<>>
    /\ filtered_history' = FilterHistory(search_history, search_term, subject_filter)
    /\ Did("filter", NoChoice)
    /\ notice' = "none"
    /\ confirm_shown' = FALSE
    /\ UNCHANGED <<quizVars, has_current_topic, historyFrame, streak, scoreFrame,
                   search_term, subject_filter>>

NextFilter == ApplyFilter

SpecFilter == InitFilter /\ [][NextFilter]_vars

(***************************************************************************)
(* display_quiz_results: the score (lines 375-377), applied to question    *)
(* lists and answer lists drawn from bounded sets.                         *)
(***************************************************************************)
\* sum(1 for i, q in enumerate(questions)
\*     if i < len(user_answers) and user_answers[i] == q["correct_answer"]),
\* over the questions from index i on
RECURSIVE CountFrom(_, _, _)
CountFrom(i, questions, answers) ==
    IF i >= Len(questions) THEN 0
    ELSE (IF i < Len(answers) /\ answers[i + 1] = questions[i + 1].correct_answer
          THEN 1 ELSE 0) + CountFrom(i + 1, questions, answers)

\* Mutant of CorrectCount: the bound check is off by one, so the last
\* recorded answer is never counted.
CorrectCount_OffByOne(questions, answers) ==
    Cardinality({i \in 1..Len(questions) :
        i < Len(answers) /\ answers[i] = questions[i].correct_answer})

CorrectCount(questions, answers) == CountFrom(0, questions, answers)

ScorePool == {Question("A"), Question("B"), Question("C")}

AnswerLetters == {Py(<<l>>) : l \in Labels}

InitScore ==
    /\ quiz_questions \in {JList(s) : s \in SeqsOf(ScorePool, 1, MaxN)}
    /\ current_question = Len(quiz_questions.items) - 1
    /\ user_answers \in SeqsOf(AnswerLetters, 0, MaxN)
    /\ quiz_completed = TRUE
    /\ has_current_topic = FALSE
    /\ topic_content = ""
    /\ search_history = <<>>
    /\ notice = "none"
    /\ confirm_shown = FALSE
    /\ clock = 0
    /\ correct_count = 0
    /\ total_questions = 0
    /\ search_term = <<>>
    /\ subject_filter = "All"
    /\ filtered_history = <<>>
    /\ appended = <<>>
    /\ streak = -1
    /\ last = [op |-> "init", choice |-> NoChoice, prev |-> "init"]

\* A run of the quiz page that renders the results (lines 321-322, 370-378)
DisplayQuizResults ==
    /\ last.op = "init"
    /\ ResultsRender
    /\ correct_count' = CorrectCount(quiz_questions.items, user_answers)
    /\ total_questions' = Len(quiz_questions.items)
    /\ Did("results", NoChoice)
    /\ notice' = "none"
    /\ confirm_shown' = FALSE
    /\ UNCHANGED <<quizVars, has_current_topic, historyFrame, streak, filterFrame>>

NextScore == DisplayQuizResults

SpecScore == InitScore /\ [][NextScore]_vars

Next == NextQuiz \/ NextHistory

Spec == Init /\ [][Next]_vars

(***************************************************************************)
(* Claims about the quiz session, checked under SpecQuiz.                  *)
(***************************************************************************)
NumQuestions == Len(quiz_questions.items)

InProgress == Truthy(quiz_questions) /\ ~quiz_completed

\* Generator outcomes that are failures: the call raised, the reply did not
\* parse, or it parsed to something that is not a sequence of question
\* records.
FailedOutcomes ==
    {o \in GeneratorOutcomes :
        o.kind \in {"api_error", "not_json"} \/ ~IsQuestionList(o.value)}

\* C2: a Generate Quiz request whose generator fails (raises, or returns
\* something that is not a sequence of question records) leaves
\* quiz_questions, current_question, user_answers and quiz_completed as
\* they were.  (The claim adds that the failure is reported; the state half
\* is what is stated here.)
C2_FailedGenerationLeavesSession ==
    [][\A topic \in Topics, o \in FailedOutcomes :
          (Strip(topic) # <<>> /\ PressGenerateQuiz(topic, o))
              => UNCHANGED quizVars]_vars

\* C3: in an attempt over N >= 1 questions with no Previous so far, after k
\* Next/Finish presses the session is not completed and at question k while
\* k < N, is completed when k = N, and k never exceeds N: the N-th press
\* completes the attempt and no press can follow it.
C3_CompletesExactlyAtNth ==
    (IsQuestionList(quiz_questions) /\ Truthy(quiz_questions) /\ streak >= 0) =>
        /\ streak <= NumQuestions
        /\ streak < NumQuestions => (~quiz_completed /\ current_question = streak)
        /\ streak = NumQuestions => quiz_completed

C3_Witness ==
    /\ IsQuestionList(quiz_questions)
    /\ NumQuestions = 3
    /\ streak = 3
    /\ quiz_completed
    /\ last.op = "finish"

\* C4: a Next/Finish press at question i records the selected letter at
\* position i of user_answers and nowhere else: the list grows by one entry
\* only when position i was still empty, every other entry is kept, the same
\* letter again changes nothing, and the list never holds more than N
\* entries.
C4_RecordWritesOnlyCurrentIndex ==
    /\ [](IsQuestionList(quiz_questions) => Len(user_answers) <= NumQuestions)
    /\ [][last'.op \in {"next", "finish"} =>
            LET i == current_question + 1
                letter == last'.choice
            IN  /\ Len(user_answers') =
                      IF i <= Len(user_answers) THEN Len(user_answers) ELSE i
                /\ user_answers'[i] = letter
                /\ \A j \in 1..Len(user_answers) :
                      j # i => user_answers'[j] = user_answers[j]
                /\ (i <= Len(user_answers) /\ user_answers[i] = letter)
                      => user_answers' = user_answers]_vars

C4_Witness ==
    /\ last.op = "next"
    /\ Len(user_answers) > current_question
    /\ user_answers[current_question] = last.choice
    /\ \E j \in 1..Len(user_answers) : user_answers[j] # last.choice

\* C5 as claimed: Previous changes no recorded answer and steps back by
\* one, and a Next pressed right after it restores current_question and
\* leaves user_answers as it was.
C5_PreviousNextKeepsAnswers ==
    [][/\ last'.op = "previous" =>
            /\ current_question' = current_question - 1
            /\ user_answers' = user_answers
       /\ (last.op = "previous" /\ last'.op = "next") =>
            /\ current_question' = current_question + 1
            /\ user_answers' = user_answers]_vars

\* C5 as amended: Previous changes no recorded answer and steps back by
\* one; a Next pressed right after it restores current_question, keeps the
\* number of answers and every answer except the one of the revisited
\* question, which becomes the letter selected when Next is pressed.
C5_PreviousNextRewritesRevisited ==
    [][/\ last'.op = "previous" =>
            /\ current_question' = current_question - 1
            /\ user_answers' = user_answers
       /\ (last.op = "previous" /\ last'.op = "next") =>
            /\ current_question' = current_question + 1
            /\ Len(user_answers') = Len(user_answers)
            /\ \A j \in 1..Len(user_answers) :
                  user_answers'[j] = IF j = current_question + 1
                                     THEN last'.choice ELSE user_answers[j]]_vars

C5_Witness ==
    /\ last.op = "next"
    /\ last.prev = "previous"
    /\ NumQuestions = 3
    /\ current_question = 2
    /\ Len(user_answers) = 2

\* C6: Retake Quiz is pressed only in a completed session, and it leaves
\* the session in progress at question 0 with no answers and the same
\* questions.
C6_RetakeKeepsQuestions ==
    [][last'.op = "retake" =>
          /\ quiz_completed
          /\ current_question' = 0
          /\ user_answers' = <<>>
          /\ ~quiz_completed'
          /\ quiz_questions' = quiz_questions
          /\ InProgress']_vars

C6_Witness ==
    /\ last.op = "retake"
    /\ NumQuestions = 3
    /\ InProgress
    /\ current_question = 0
    /\ user_answers = <<>>

\* C10: the index never passes a question without a recorded answer
\* (there are at least current_question answers), and a completed session
\* has an answer for each of its N questions.
C10_NoAdvanceWithoutAnswer ==
    /\ Len(user_answers) >= current_question
    /\ quiz_completed =>
          (IsQuestionList(quiz_questions) /\ Len(user_answers) = NumQuestions)

C10_Witness ==
    /\ quiz_completed
    /\ NumQuestions = 3
    /\ Len(user_answers) = 3
    /\ streak = -1

(***************************************************************************)
(* Claims about the score, checked under SpecScore.                        *)
(***************************************************************************)
\* The indices (from 1) at which an answer is recorded and equals the
\* question's correct answer.
MatchingIndices ==
    {i \in 1..NumQuestions :
        i \in DOMAIN user_answers /\ user_answers[i] = quiz_questions.items[i].correct_answer}

\* C1: the results page reports, out of N questions, the number of indices
\* that have a recorded answer equal to the correct answer; an index with no
\* recorded answer counts as incorrect, and with no matching answer the
\* count is 0.
C1_ScoreCountsMatchingAnswers ==
    last.op = "results" =>
        /\ total_questions = NumQuestions
        /\ correct_count = Cardinality(MatchingIndices)
        /\ (\A i \in 1..NumQuestions :
                i \in DOMAIN user_answers =>
                    user_answers[i] # quiz_questions.items[i].correct_answer)
              => correct_count = 0

C1_Witness ==
    /\ last.op = "results"
    /\ quiz_questions.items = <<Question("A"), Question("B"), Question("C")>>
    /\ user_answers = << Py(<<"A">>), Py(<<"B">>), Py(<<"D">>) >>
    /\ correct_count = 2
    /\ total_questions = 3

(***************************************************************************)
(* Claims about the history log, checked under SpecHistory.                *)
(***************************************************************************)
Min(a, b) == IF a < b THEN a ELSE b

\* C7: the log holds at most 10 entries and is, in insertion order, the last
\* min(k, 10) of the k entries appended since it was last empty; an append
\* to a log of 10 drops the oldest entry and keeps the other 9 in order
\* ahead of the new one.
C7_HistoryKeepsLastTen ==
    /\ [](/\ Len(search_history) <= 10
          /\ Len(search_history) = Min(Len(appended), 10)
          /\ \A i \in 1..Len(search_history) :
                search_history[i] =
                    appended[Len(appended) - Len(search_history) + i])
    /\ [][(Len(search_history) = 10 /\ Len(appended') = Len(appended) + 1) =>
            /\ Len(search_history') = 10
            /\ \A i \in 1..9 : search_history'[i] = search_history[i + 1]
            /\ search_history'[10] = appended'[Len(appended')]]_vars

C7_Witness ==
    /\ Len(appended) = 12
    /\ Len(search_history) = 10
    /\ search_history[1].timestamp = 3
    /\ search_history[10].timestamp = 12

\* C8: pressing 'Confirm Clear History' in the run after the one in which
\* 'Clear All History' was pressed leaves the history log empty.
C8_ConfirmedClearEmptiesHistory ==
    [][(last.op = "clear_all" /\ last'.op = "confirm") => search_history' = <<>>]_vars

(***************************************************************************)
(* Claims about the history filter, checked under SpecFilter.              *)
(***************************************************************************)
\* The two characters are the same letter up to case: the same code point,
\* or code points whose one-character strings lower to the same string.
SameLetter(a, b) == a = b \/ LowerChar(a) = LowerChar(b)

\* The entry passes the filter: its topic contains the search term up to
\* case (any topic when the term is empty) and its subject is the selected
\* one (any subject when "All" is selected).
PassesFilter(entry) ==
    /\ \/ search_term = <<>>
       \/ \E k \in 0..(Len(entry.topic) - Len(search_term)) :
             \A i \in 1..Len(search_term) :
                 SameLetter(search_term[i], entry.topic[k + i])
    /\ \/ subject_filter = "All"
       \/ entry.subject = subject_filter

PassingIndices == {i \in 1..Len(search_history) : PassesFilter(search_history[i])}

\* C9: the filtered history is exactly the entries that pass the filter, in
\* the order of the log: the n-th passing entry of the log is the n-th entry
\* of the result.  (Line 525 compares str.lower() of the two strings, and
\* a capital sigma that ends a word lowers to the final sigma: the term
\* U+03A3 is not found in a topic that ends with U+03A3.)
C9_FilterIsMatchingSubsequence ==
    last.op = "filter" =>
        /\ Len(filtered_history) = Cardinality(PassingIndices)
        /\ \A i \in PassingIndices :
              filtered_history[Cardinality({j \in PassingIndices : j <= i})]
                  = search_history[i]

(***************************************************************************)
(* The session's index and completion, checked under SpecQuiz.             *)
(***************************************************************************)
\* quiz_questions holds something of non-zero length (for a generator reply
\* that is a bare number: a non-zero number, which has no length).
QuestionsNonEmpty == quiz_questions.type # "null" /\ quiz_questions.size # 0

\* C11: whenever quiz_questions is non-empty, current_question is an index
\* into it (0 <= current_question <= N-1); quiz_completed is true only over
\* a non-empty list of questions, so the session is never in progress or
\* completed with zero questions and the division by the number of
\* questions on the results page (line 378) is never by zero.
C11_IndexInRangeAndNeverEmpty ==
    /\ current_question >= 0
    /\ (QuestionsNonEmpty /\ quiz_questions.type # "num")
          => current_question <= quiz_questions.size - 1
    /\ IsQuestionList(quiz_questions) => quiz_questions.size = NumQuestions
    /\ quiz_completed =>
          /\ QuestionsNonEmpty
          /\ IsQuestionList(quiz_questions)
          /\ NumQuestions # 0
    /\ ~QuestionsNonEmpty =>
          /\ ~quiz_completed
          /\ ~InProgress
          /\ current_question = 0
          /\ user_answers = <<>>

C11_Witness ==
    /\ last.op = "finish"
    /\ quiz_completed
    /\ NumQuestions = 3
    /\ current_question = 2
    /\ notice = "none"

====
